---- MODULE Spec2Model ----
(***************************************************************************)
(* A model of the exists-ref crate: the scalar existence handle Exists<T>, *)
(* the slice handle SliceExists<T>, the SliceExistsIndex protocol and the  *)
(* iterators of slice/iter.rs.                                             *)
(*                                                                         *)
(* A handle is its address (and, for a slice handle, its length).  Memory  *)
(* is a byte array over a usize address space of UsizeBits bits; a value   *)
(* of T is the tuple of its size_of::<T>() bytes, so a zero-sized T has    *)
(* the single value << >> and all its elements share one address.          *)
(***************************************************************************)
EXTENDS Integers, Sequences, FiniteSets, Bags, TLC

----------------------------------------------------------------------------
(* Bounds of the model *)

UsizeBits == 5          \* width of usize / of an address
MaxSize == 2            \* size_of::<T>() ranges over 0..MaxSize
MaxLen == 3             \* longest slice handled by the indexing driver
MaxBase == 1            \* the backing storage starts at an address in 1..MaxBase
MaxIterLen == 7         \* longest slice handed to the iterators
MaxChunk == 4           \* chunk_size ranges over 0..MaxChunk and usize::MAX
MaxExistsLen == 2       \* longest slice the scalar operations write into
MaxRefs == 3            \* most handles held at once
MaxCopies == 2          \* copy_mut::<N>() with N in 0..MaxCopies

UsizeMax == 2^UsizeBits - 1
IsizeMax == 2^(UsizeBits - 1) - 1
Usize == 0..UsizeMax

\* index values handed to the indexing forms: everything up to one past the
\* longest slice, and usize::MAX
MaxIdx == MaxLen + 1
Idx == (0..MaxIdx) \cup {UsizeMax}

----------------------------------------------------------------------------
(* State *)

VARIABLES
    size,             \* size_of::<T>(): the element stride in bytes
    overflow_checks,  \* build profile: does usize arithmetic panic on overflow
    mem,              \* the bytes of the address space
    slice,            \* the slice handle over the backing storage
    pc,               \* "idle", "returned", "panicked" or "ub"
    res,              \* the last call and its outcome
    iter,             \* the iterator being drained: an Iter, IterMut or Chunks
    yielded,          \* the handles the iterator has yielded so far, in order
    refs,             \* the bag of handles the caller holds, each with the
                      \* operation that returned it
    last,             \* the last call on a held handle and what it returned
    written           \* per address, the value last written through a handle

vars == <<size, overflow_checks, mem, slice, pc, res, iter, yielded, refs, last, written>>

----------------------------------------------------------------------------
(* Handles, outcomes and panic messages *)

\* &Exists<T> / &mut Exists<T>: a thin reference, the address is the payload
ExistsRef(p) == [ty |-> "Exists", ptr |-> p]

\* &SliceExists<T> / &mut SliceExists<T>: a wide reference, address and length
SliceExistsRef(p, n) == [ty |-> "SliceExists", ptr |-> p, len |-> n]

NoHandle == [ty |-> "none"]
NoMsg == ""

\* panic!(..): the program terminates with the formatted message
Panic(msg) == [tag |-> "Panic", h |-> NoHandle, msg |-> msg, ub |-> FALSE]

\* "{}" of a usize: its decimal digits
Display(n) == ToString(n)

Ret(h) == [tag |-> "Ret", h |-> h, msg |-> NoMsg, ub |-> FALSE]
Some(h) == [tag |-> "Some", h |-> h, msg |-> NoMsg, ub |-> FALSE]
None == [tag |-> "None", h |-> NoHandle, msg |-> NoMsg, ub |-> FALSE]

\* An unchecked form called outside its contract is undefined behaviour: the
\* build either carries on with what the wrapping arithmetic produced or traps.
Trap == [tag |-> "Trap", h |-> NoHandle, msg |-> NoMsg, ub |-> TRUE]
Undefined(r) == {[r EXCEPT !.ub = TRUE], Trap}

\* todo!()
todo == Panic("not yet implemented")

----------------------------------------------------------------------------
(* usize and pointer arithmetic *)

WrapUsize(x) == x % (UsizeMax + 1)

\* a - b on usize: panics when overflow checks are compiled in, wraps otherwise
usize_sub(a, b) ==
    IF a < b /\ overflow_checks
    THEN Panic("attempt to subtract with overflow")
    ELSE Ret(WrapUsize(a - b))

\* <*const T>::add(count): count element strides further
ptr_add(p, count) == WrapUsize(p + count * size)

\* bool::then(f), f having the outcomes rs
bool_then(c, rs) ==
    IF c THEN {IF r.tag = "Ret" THEN [r EXCEPT !.tag = "Some"] ELSE r : r \in rs}
    ELSE {None}

\* Option::unwrap_or_else(f), f diverging with the panic p
unwrap_or_else(rs, p) ==
    {IF r.tag = "Some" THEN [r EXCEPT !.tag = "Ret"]
     ELSE IF r.tag = "None" THEN p ELSE r : r \in rs}

----------------------------------------------------------------------------
(* slice/mod.rs: accessors *)

SliceExists_len(s) == s.len
SliceExists_as_ptr(s) == s.ptr
SliceExists_as_mut_ptr(s) == s.ptr
SliceExists_is_empty(s) == SliceExists_len(s) = 0

\* Exists::from_ptr / from_mut_ptr, SliceExists::from_ptr / from_mut_ptr:
\* a cast of the pointer
Exists_from_ptr(data) == ExistsRef(data)
Exists_from_mut_ptr(data) == ExistsRef(data)
SliceExists_from_ptr(data, n) == SliceExistsRef(data, n)
SliceExists_from_mut_ptr(data, n) == SliceExistsRef(data, n)

----------------------------------------------------------------------------
(* slice/index.rs: the panics *)

\* slice_index_past_end with the two arguments formatted in the other order
slice_index_past_end_swapped(index, len) ==
    Panic("index " \o Display(len) \o " out of range for slice of length " \o Display(index))

slice_index_past_end(index, len) ==
    Panic("index " \o Display(index) \o " out of range for slice of length " \o Display(len))

slice_index_order_fail(index, end) ==
    Panic("slice index starts at " \o Display(index) \o " but ends at " \o Display(end))

slice_start_index_len_fail(index, len) ==
    Panic("range start index " \o Display(index)
            \o " out of range for slice of length " \o Display(len))

slice_end_index_len_fail(index, len) ==
    Panic("range end index " \o Display(index)
            \o " out of range for slice of length " \o Display(len))

----------------------------------------------------------------------------
(* slice/index.rs: impl SliceExistsIndex for usize *)

usize_get_unchecked(self, s) ==
    LET r == Ret(Exists_from_ptr(ptr_add(SliceExists_as_ptr(s), self)))
    IN  IF self < SliceExists_len(s) THEN {r} ELSE Undefined(r)

usize_get_unchecked_mut(self, s) ==
    LET r == Ret(Exists_from_mut_ptr(ptr_add(SliceExists_as_mut_ptr(s), self)))
    IN  IF self < SliceExists_len(s) THEN {r} ELSE Undefined(r)

\* usize::get with the bound check off by one
usize_get_inclusive_bound(self, s) ==
    bool_then(self <= SliceExists_len(s), usize_get_unchecked(self, s))

usize_get(self, s) ==
    bool_then(self < SliceExists_len(s), usize_get_unchecked(self, s))

usize_get_mut(self, s) ==
    bool_then(self < SliceExists_len(s), usize_get_unchecked_mut(self, s))

usize_index(self, s) ==
    unwrap_or_else(usize_get(self, s), slice_index_past_end(self, SliceExists_len(s)))

usize_index_mut(self, s) ==
    LET len == SliceExists_len(s)
    IN  unwrap_or_else(usize_get_mut(self, s), slice_index_past_end(self, len))

----------------------------------------------------------------------------
(* slice/index.rs: impl SliceExistsIndex for ops::Range<usize> *)

\* the index is within the contract of the unchecked forms
RangeInBounds(start, end, s) == start <= end /\ end <= SliceExists_len(s)

Range_get_unchecked_len_end(start, end, s) ==
    LET p == ptr_add(SliceExists_as_ptr(s), start)
        r == Ret(SliceExists_from_ptr(p, end))
    IN  IF RangeInBounds(start, end, s) THEN {r} ELSE Undefined(r)

Range_get_unchecked(start, end, s) ==
    LET p == ptr_add(SliceExists_as_ptr(s), start)
        n == usize_sub(end, start)
        r == IF n.tag = "Panic" THEN n ELSE Ret(SliceExists_from_ptr(p, n.h))
    IN  IF RangeInBounds(start, end, s) THEN {r} ELSE Undefined(r)

Range_get_unchecked_mut(start, end, s) ==
    LET p == ptr_add(SliceExists_as_mut_ptr(s), start)
        n == usize_sub(end, start)
        r == IF n.tag = "Panic" THEN n ELSE Ret(SliceExists_from_mut_ptr(p, n.h))
    IN  IF RangeInBounds(start, end, s) THEN {r} ELSE Undefined(r)

Range_get(start, end, s) ==
    bool_then(start > end \/ end > SliceExists_len(s), Range_get_unchecked(start, end, s))

Range_get_mut(start, end, s) ==
    bool_then(start > end \/ end > SliceExists_len(s), Range_get_unchecked_mut(start, end, s))

\* Range::index checking the end against the length before the order
Range_index_end_first(start, end, s) ==
    IF end > SliceExists_len(s) THEN {slice_end_index_len_fail(end, SliceExists_len(s))}
    ELSE IF start > end THEN {slice_index_order_fail(start, end)}
    ELSE Range_get_unchecked(start, end, s)

Range_index(start, end, s) ==
    IF start > end THEN {slice_index_order_fail(start, end)}
    ELSE IF end > SliceExists_len(s) THEN {slice_end_index_len_fail(end, SliceExists_len(s))}
    ELSE Range_get_unchecked(start, end, s)

Range_index_mut(start, end, s) ==
    IF start > end THEN {slice_index_order_fail(start, end)}
    ELSE IF end > SliceExists_len(s) THEN {slice_end_index_len_fail(end, SliceExists_len(s))}
    ELSE Range_get_unchecked_mut(start, end, s)

----------------------------------------------------------------------------
(* slice/index.rs: impl SliceExistsIndex for ops::RangeTo<usize> *)

RangeTo_get(end, s) == Range_get(0, end, s)
RangeTo_get_mut(end, s) == Range_get_mut(0, end, s)
RangeTo_get_unchecked(end, s) == Range_get_unchecked(0, end, s)
RangeTo_get_unchecked_mut(end, s) == Range_get_unchecked_mut(0, end, s)
RangeTo_index(end, s) == Range_index(0, end, s)
RangeTo_index_mut(end, s) == Range_index_mut(0, end, s)

----------------------------------------------------------------------------
(* slice/index.rs: impl SliceExistsIndex for ops::RangeFrom<usize> *)

RangeFrom_get(start, s) == Range_get(start, SliceExists_len(s), s)
RangeFrom_get_mut(start, s) == Range_get_mut(start, SliceExists_len(s), s)
RangeFrom_get_unchecked(start, s) == Range_get_unchecked(start, SliceExists_len(s), s)
RangeFrom_get_unchecked_mut(start, s) == Range_get_unchecked_mut(start, SliceExists_len(s), s)

\* RangeFrom::index rejecting the empty tail start = len
RangeFrom_index_strict(start, s) ==
    IF start >= SliceExists_len(s)
    THEN {slice_start_index_len_fail(start, SliceExists_len(s))}
    ELSE RangeFrom_get_unchecked(start, s)

RangeFrom_index(start, s) ==
    IF start > SliceExists_len(s)
    THEN {slice_start_index_len_fail(start, SliceExists_len(s))}
    ELSE RangeFrom_get_unchecked(start, s)

RangeFrom_index_mut(start, s) ==
    IF start > SliceExists_len(s)
    THEN {slice_start_index_len_fail(start, SliceExists_len(s))}
    ELSE RangeFrom_get_unchecked_mut(start, s)

----------------------------------------------------------------------------
(* slice/index.rs: impl SliceExistsIndex for ops::RangeFull *)

RangeFull_get(s) == {Some(s)}
RangeFull_get_mut(s) == {Some(s)}
RangeFull_get_unchecked(s) == {Ret(s)}
RangeFull_get_unchecked_mut(s) == {Ret(s)}
RangeFull_index(s) == {Ret(s)}
RangeFull_index_mut(s) == {Ret(s)}

----------------------------------------------------------------------------
(* slice/index.rs: impl SliceExistsIndex for ops::RangeInclusive<usize> *)

RangeInclusive_get(start, end, s) == {todo}
RangeInclusive_get_mut(start, end, s) == {todo}
RangeInclusive_get_unchecked(start, end, s) == {todo}
RangeInclusive_get_unchecked_mut(start, end, s) == {todo}
\* s..=e taken as the half-open range s..e+1
RangeInclusive_index_half_open(start, end, s) == Range_index(start, WrapUsize(end + 1), s)

RangeInclusive_index(start, end, s) == {todo}
RangeInclusive_index_mut(start, end, s) == {todo}

----------------------------------------------------------------------------
(* slice/index.rs: impl SliceExistsIndex for ops::RangeToInclusive<usize> *)

RangeToInclusive_get(end, s) == RangeInclusive_get(0, end, s)
RangeToInclusive_get_mut(end, s) == RangeInclusive_get_mut(0, end, s)
RangeToInclusive_get_unchecked(end, s) == RangeInclusive_get_unchecked(0, end, s)
RangeToInclusive_get_unchecked_mut(end, s) == RangeInclusive_get_unchecked_mut(0, end, s)
RangeToInclusive_index(end, s) == RangeInclusive_index(0, end, s)
RangeToInclusive_index_mut(end, s) == RangeInclusive_index_mut(0, end, s)

----------------------------------------------------------------------------
(* The index values of the sealed index kinds *)

IndexValues ==
    [kind : {"usize"}, start : Idx, end : {0}]
    \cup [kind : {"Range", "RangeInclusive"}, start : Idx, end : Idx]
    \cup [kind : {"RangeTo", "RangeToInclusive"}, start : {0}, end : Idx]
    \cup [kind : {"RangeFrom"}, start : Idx, end : {0}]
    \cup [kind : {"RangeFull"}, start : {0}, end : {0}]

(* slice/mod.rs: the six access forms of SliceExists<T>, dispatching on the
   index kind I *)

SliceExists_get(s, index) ==
    CASE index.kind = "usize" -> usize_get(index.start, s)
      [] index.kind = "Range" -> Range_get(index.start, index.end, s)
      [] index.kind = "RangeTo" -> RangeTo_get(index.end, s)
      [] index.kind = "RangeFrom" -> RangeFrom_get(index.start, s)
      [] index.kind = "RangeFull" -> RangeFull_get(s)
      [] index.kind = "RangeInclusive" -> RangeInclusive_get(index.start, index.end, s)
      [] index.kind = "RangeToInclusive" -> RangeToInclusive_get(index.end, s)

SliceExists_get_mut(s, index) ==
    CASE index.kind = "usize" -> usize_get_mut(index.start, s)
      [] index.kind = "Range" -> Range_get_mut(index.start, index.end, s)
      [] index.kind = "RangeTo" -> RangeTo_get_mut(index.end, s)
      [] index.kind = "RangeFrom" -> RangeFrom_get_mut(index.start, s)
      [] index.kind = "RangeFull" -> RangeFull_get_mut(s)
      [] index.kind = "RangeInclusive" -> RangeInclusive_get_mut(index.start, index.end, s)
      [] index.kind = "RangeToInclusive" -> RangeToInclusive_get_mut(index.end, s)

SliceExists_get_unchecked(s, index) ==
    CASE index.kind = "usize" -> usize_get_unchecked(index.start, s)
      [] index.kind = "Range" -> Range_get_unchecked(index.start, index.end, s)
      [] index.kind = "RangeTo" -> RangeTo_get_unchecked(index.end, s)
      [] index.kind = "RangeFrom" -> RangeFrom_get_unchecked(index.start, s)
      [] index.kind = "RangeFull" -> RangeFull_get_unchecked(s)
      [] index.kind = "RangeInclusive" -> RangeInclusive_get_unchecked(index.start, index.end, s)
      [] index.kind = "RangeToInclusive" -> RangeToInclusive_get_unchecked(index.end, s)

SliceExists_get_unchecked_mut(s, index) ==
    CASE index.kind = "usize" -> usize_get_unchecked_mut(index.start, s)
      [] index.kind = "Range" -> Range_get_unchecked_mut(index.start, index.end, s)
      [] index.kind = "RangeTo" -> RangeTo_get_unchecked_mut(index.end, s)
      [] index.kind = "RangeFrom" -> RangeFrom_get_unchecked_mut(index.start, s)
      [] index.kind = "RangeFull" -> RangeFull_get_unchecked_mut(s)
      [] index.kind = "RangeInclusive" -> RangeInclusive_get_unchecked_mut(index.start, index.end, s)
      [] index.kind = "RangeToInclusive" -> RangeToInclusive_get_unchecked_mut(index.end, s)

SliceExists_index(s, index) ==
    CASE index.kind = "usize" -> usize_index(index.start, s)
      [] index.kind = "Range" -> Range_index(index.start, index.end, s)
      [] index.kind = "RangeTo" -> RangeTo_index(index.end, s)
      [] index.kind = "RangeFrom" -> RangeFrom_index(index.start, s)
      [] index.kind = "RangeFull" -> RangeFull_index(s)
      [] index.kind = "RangeInclusive" -> RangeInclusive_index(index.start, index.end, s)
      [] index.kind = "RangeToInclusive" -> RangeToInclusive_index(index.end, s)

SliceExists_index_mut(s, index) ==
    CASE index.kind = "usize" -> usize_index_mut(index.start, s)
      [] index.kind = "Range" -> Range_index_mut(index.start, index.end, s)
      [] index.kind = "RangeTo" -> RangeTo_index_mut(index.end, s)
      [] index.kind = "RangeFrom" -> RangeFrom_index_mut(index.start, s)
      [] index.kind = "RangeFull" -> RangeFull_index_mut(s)
      [] index.kind = "RangeInclusive" -> RangeInclusive_index_mut(index.start, index.end, s)
      [] index.kind = "RangeToInclusive" -> RangeToInclusive_index_mut(index.end, s)

----------------------------------------------------------------------------
(* The backing storage *)

\* the k-th element of the backing storage holds the number k + 1, stored in
\* its first byte; the other bytes of the element and of the address space
\* are zero
InitialMem(base, n, sz) ==
    [a \in Usize |->
        IF sz > 0 /\ a >= base /\ a < base + n * sz /\ (a - base) % sz = 0
        THEN (a - base) \div sz + 1
        ELSE 0]

\* a slice handle over maxlen or fewer elements of size sz: its address is
\* non-null, the elements lie within the address space and take no more than
\* isize::MAX bytes (the safety contract of SliceExists::from_mut_ptr)
ValidSlice(s, sz) ==
    /\ s.ptr >= 1
    /\ s.len * sz <= IsizeMax
    /\ s.ptr + s.len * sz <= UsizeMax

NoCall == [op |-> "none", index |-> [kind |-> "none", start |-> 0, end |-> 0], out |-> None]

\* let x = [1, 2, ..]; let s = SliceExists::from_mut(&mut x[..]);
InitCore(maxlen) ==
    /\ size \in 0..MaxSize
    /\ overflow_checks \in BOOLEAN
    /\ slice \in {s \in [ty : {"SliceExists"}, ptr : 1..MaxBase, len : 0..maxlen] :
                    ValidSlice(s, size)}
    /\ mem = InitialMem(slice.ptr, slice.len, size)

NoIter == [kind |-> "none"]
Held(h, by) == [h |-> h, by |-> by]
NoLast == [op |-> "none", self |-> NoHandle, arg |-> << >>, out |-> << >>]
NoWrites == [a \in Usize |-> [set |-> FALSE, val |-> << >>]]

InitIndex ==
    /\ InitCore(MaxLen)
    /\ pc = "idle"
    /\ res = NoCall
    /\ iter = NoIter
    /\ yielded = << >>
    /\ refs = SetToBag({Held(slice, "from_mut")})
    /\ last = NoLast
    /\ written = NoWrites

----------------------------------------------------------------------------
(* The indexing calls: one call on the slice handle, which returns, panics
   or is undefined *)

After(out) ==
    IF out.ub THEN "ub" ELSE IF out.tag = "Panic" THEN "panicked" ELSE "returned"

Call(op, index, outs) ==
    /\ pc = "idle"
    /\ \E out \in outs :
        /\ res' = [op |-> op, index |-> index, out |-> out]
        /\ pc' = After(out)
    /\ UNCHANGED <<size, overflow_checks, mem, slice, iter, yielded, refs, last, written>>

Get == \E index \in IndexValues : Call("get", index, SliceExists_get(slice, index))

GetMut == \E index \in IndexValues : Call("get_mut", index, SliceExists_get_mut(slice, index))

GetUnchecked ==
    \E index \in IndexValues :
        Call("get_unchecked", index, SliceExists_get_unchecked(slice, index))

GetUncheckedMut ==
    \E index \in IndexValues :
        Call("get_unchecked_mut", index, SliceExists_get_unchecked_mut(slice, index))

Index == \E index \in IndexValues : Call("index", index, SliceExists_index(slice, index))

IndexMut == \E index \in IndexValues : Call("index_mut", index, SliceExists_index_mut(slice, index))

----------------------------------------------------------------------------
(* exists.rs: reading through a scalar handle *)

\* <*const T>::read(): the size_of::<T>() bytes at the address
ptr_read(m, p) == [i \in 1..size |-> m[WrapUsize(p + i - 1)]]

\* Exists::get
Exists_get(m, h) == ptr_read(m, h.ptr)

\* the integer a value of T stands for, its bytes taken little-endian
RECURSIVE from_le_bytes(_)
from_le_bytes(b) ==
    IF Len(b) = 0 THEN 0 ELSE b[1] + 256 * from_le_bytes(Tail(b))

----------------------------------------------------------------------------
(* slice/mod.rs: split_at *)

RangeToOf(end) == [kind |-> "RangeTo", start |-> 0, end |-> end]
RangeFromOf(start) == [kind |-> "RangeFrom", start |-> start, end |-> 0]

SliceExists_split_at_tail_first(s, index) ==
    {IF b.tag # "Ret" THEN b
     ELSE IF a.tag # "Ret" THEN a
     ELSE [Ret(<<a.h, b.h>>) EXCEPT !.ub = a.ub \/ b.ub] :
        a \in SliceExists_index(s, RangeToOf(index)),
        b \in SliceExists_index(s, RangeFromOf(index))}

\* (&self[..index], &self[index..]): the first panic wins
SliceExists_split_at(s, index) ==
    {IF a.tag # "Ret" THEN a
     ELSE IF b.tag # "Ret" THEN b
     ELSE [Ret(<<a.h, b.h>>) EXCEPT !.ub = a.ub \/ b.ub] :
        a \in SliceExists_index(s, RangeToOf(index)),
        b \in SliceExists_index(s, RangeFromOf(index))}

\* the calls that take no index kind: len, is_empty and split_at
SliceLen == Call("len", NoCall.index, {Ret(SliceExists_len(slice))})

IsEmpty == Call("is_empty", NoCall.index, {Ret(SliceExists_is_empty(slice))})

SplitAt ==
    \E index \in Idx :
        Call("split_at", [kind |-> "usize", start |-> index, end |-> 0],
             SliceExists_split_at(slice, index))

NextIndex ==
    \/ Get
    \/ GetMut
    \/ GetUnchecked
    \/ GetUncheckedMut
    \/ Index
    \/ IndexMut
    \/ SliceLen
    \/ IsEmpty
    \/ SplitAt

SpecIndex == InitIndex /\ [][NextIndex]_vars

----------------------------------------------------------------------------
(* slice/iter.rs: Iter, IterMut and Chunks *)

Iter_new(s) ==
    [kind |-> "Iter",
     ptr |-> SliceExists_as_ptr(s),
     end |-> ptr_add(SliceExists_as_ptr(s), SliceExists_len(s))]

IterMut_new(s) ==
    [kind |-> "IterMut",
     ptr |-> SliceExists_as_mut_ptr(s),
     end |-> ptr_add(SliceExists_as_mut_ptr(s), SliceExists_len(s))]

\* SliceExists::chunks
SliceExists_chunks(s, chunk_size) ==
    [kind |-> "Chunks", v |-> s, chunk_size |-> chunk_size]

\* next() gives the iterator afterwards and what the call returned
Iter_next_inclusive(self) ==
    LET p == self.ptr
    IN  IF p <= self.end
        THEN {[self |-> [self EXCEPT !.ptr = ptr_add(p, 1)],
               out |-> Some(Exists_from_ptr(p))]}
        ELSE {[self |-> self, out |-> None]}

Iter_next(self) ==
    LET p == self.ptr
    IN  IF p < self.end
        THEN {[self |-> [self EXCEPT !.ptr = ptr_add(p, 1)],
               out |-> Some(Exists_from_ptr(p))]}
        ELSE {[self |-> self, out |-> None]}

\* IterMut::next moving the cursor two strides on
IterMut_next_skip(self) ==
    LET p == self.ptr
    IN  IF p < self.end
        THEN {[self |-> [self EXCEPT !.ptr = ptr_add(p, 2)],
               out |-> Some(Exists_from_mut_ptr(p))]}
        ELSE {[self |-> self, out |-> None]}

IterMut_next(self) ==
    LET p == self.ptr
    IN  IF p < self.end
        THEN {[self |-> [self EXCEPT !.ptr = ptr_add(p, 1)],
               out |-> Some(Exists_from_mut_ptr(p))]}
        ELSE {[self |-> self, out |-> None]}

usize_min(a, b) == IF a <= b THEN a ELSE b

\* Chunks::next splitting at chunk_size without the min against the length
Chunks_next_no_min(self) ==
    IF SliceExists_is_empty(self.v)
    THEN {[self |-> self, out |-> None]}
    ELSE LET len == self.chunk_size
         IN  {IF r.tag = "Ret"
              THEN [self |-> [self EXCEPT !.v = r.h[2]], out |-> Some(r.h[1])]
              ELSE [self |-> self, out |-> r] :
                 r \in SliceExists_split_at(self.v, len)}

Chunks_next(self) ==
    IF SliceExists_is_empty(self.v)
    THEN {[self |-> self, out |-> None]}
    ELSE LET len == usize_min(SliceExists_len(self.v), self.chunk_size)
         IN  {IF r.tag = "Ret"
              THEN [self |-> [self EXCEPT !.v = r.h[2]], out |-> Some(r.h[1])]
              ELSE [self |-> self, out |-> r] :
                 r \in SliceExists_split_at(self.v, len)}

----------------------------------------------------------------------------
(* Draining an iterator: it is created from the slice handle, then next() is
   called again and again *)

ChunkSizes == (0..MaxChunk) \cup {UsizeMax}

\* the log holds MaxYield handles, more than a slice has elements; a full log
\* starts over
MaxYield == MaxIterLen + 2
Log(out) ==
    IF out.tag # "Some" THEN yielded
    ELSE IF Len(yielded) < MaxYield THEN Append(yielded, out.h)
    ELSE <<out.h>>

NoIndex == [kind |-> "none", start |-> 0, end |-> 0]

InitIter ==
    /\ InitCore(MaxIterLen)
    /\ pc = "idle"
    /\ res = NoCall
    /\ iter = NoIter
    /\ yielded = << >>
    /\ refs = SetToBag({Held(slice, "from_mut")})
    /\ last = NoLast
    /\ written = NoWrites

Create(it) ==
    /\ pc = "idle"
    /\ iter' = it
    /\ pc' = "iterating"
    /\ UNCHANGED <<size, overflow_checks, mem, slice, res, yielded, refs, last, written>>

\* SliceExists::iter
IterNew == Create(Iter_new(slice))

\* SliceExists::iter_mut
IterMutNew == Create(IterMut_new(slice))

\* SliceExists::chunks
ChunksNew == \E chunk_size \in ChunkSizes : Create(SliceExists_chunks(slice, chunk_size))

Advance(kind, nexts) ==
    /\ pc = "iterating"
    /\ iter.kind = kind
    /\ \E n \in nexts :
        /\ iter' = n.self
        /\ res' = [op |-> "next", index |-> NoIndex, out |-> n.out]
        /\ yielded' = Log(n.out)
        /\ pc' = IF n.out.tag \in {"Some", "None"} /\ ~n.out.ub THEN "iterating" ELSE After(n.out)
    /\ UNCHANGED <<size, overflow_checks, mem, slice, refs, last, written>>

IterNext == Advance("Iter", Iter_next(iter))

IterMutNext == Advance("IterMut", IterMut_next(iter))

ChunksNext == Advance("Chunks", Chunks_next(iter))

NextIter ==
    \/ IterNew
    \/ IterMutNew
    \/ ChunksNew
    \/ IterNext
    \/ IterMutNext
    \/ ChunksNext

SpecIter == InitIter /\ [][NextIter]_vars

\* the caller keeps calling next()
FairSpecIter ==
    SpecIter /\ WF_vars(IterNext) /\ WF_vars(IterMutNext) /\ WF_vars(ChunksNext)

----------------------------------------------------------------------------
(* exists.rs: the operations of a scalar handle *)

\* a write that also clears the byte after the value
ptr_write_one_more(m, p, src) ==
    [a \in Usize |->
        LET off == WrapUsize(a - p)
        IN  IF off < size THEN src[off + 1]
            ELSE IF size > 0 /\ off = size THEN 0 ELSE m[a]]

\* <*mut T>::write(src): the size_of::<T>() bytes at the address become src
ptr_write(m, p, src) ==
    [a \in Usize |->
        LET off == WrapUsize(a - p)
        IN  IF off < size THEN src[off + 1] ELSE m[a]]

\* set storing only the first byte of the value
Exists_set_first_byte(m, h, src) ==
    [a \in Usize |-> IF size > 0 /\ a = h.ptr THEN src[1] ELSE m[a]]

\* Exists::set
Exists_set(m, h, src) == ptr_write(m, h.ptr, src)

\* replace reading the value back after it has stored the new one
Exists_replace_read_after(m, h, val) ==
    [mem |-> ptr_write(m, h.ptr, val),
     out |-> ptr_read(ptr_write(m, h.ptr, val), h.ptr)]

\* Exists::replace, through ptr::replace: the memory afterwards and the old value
Exists_replace(m, h, val) ==
    [mem |-> ptr_write(m, h.ptr, val), out |-> ptr_read(m, h.ptr)]

\* Default::default() of T: the integer zero
Default == [i \in 1..size |-> 0]

\* take returning the value without resetting it
Exists_take_copy(m, h) == [mem |-> m, out |-> ptr_read(m, h.ptr)]

\* Exists::take
Exists_take(m, h) == Exists_replace(m, h, Default)

\* a swap that copies y over x and leaves y as it was
ptr_swap_one_way(m, x, y) == ptr_write(m, x, ptr_read(m, y))

\* core::ptr::swap(x, y), which allows the two to overlap: x is saved, y is
\* copied over x, the saved value is written to y
ptr_swap(m, x, y) ==
    LET tmp == ptr_read(m, x)
        m1 == ptr_write(m, x, ptr_read(m, y))
    IN  ptr_write(m1, y, tmp)

\* swap by byte-wise add and subtract in place, without a temporary
Exists_swap_in_place(m, self, other) ==
    LET add(a, b) == [i \in 1..size |-> (a[i] + b[i]) % 256]
        sub(a, b) == [i \in 1..size |-> (a[i] - b[i]) % 256]
        x == self.ptr
        y == other.ptr
        m1 == ptr_write(m, x, add(ptr_read(m, x), ptr_read(m, y)))
        m2 == ptr_write(m1, y, sub(ptr_read(m1, x), ptr_read(m1, y)))
    IN  ptr_write(m2, x, sub(ptr_read(m2, x), ptr_read(m2, y)))

\* Exists::swap
Exists_swap(m, self, other) == ptr_swap(m, self.ptr, other.ptr)

\* Exists::copy_mut handing out the addresses of N successive values
Exists_copy_mut_successive(self, N) == [k \in 1..N |-> ExistsRef(ptr_add(self.ptr, k - 1))]

\* Exists::copy_mut::<N>: [self as *mut Self; N]
Exists_copy_mut(self, N) == [k \in 1..N |-> self]

\* SliceExists::copy_mut::<N>
SliceExists_copy_mut(self, N) == [k \in 1..N |-> self]

\* Exists::from_mut(&mut x), x living at the address p
Exists_from_mut(p) == Exists_from_mut_ptr(p)

\* Exists::from_ref(&x), x living at the address p
Exists_from_ref(p) == Exists_from_ptr(p)

\* Cell::as_ptr: Cell<T> is transparent over T, the cell's address is the value's
Cell_as_ptr(c) == c

\* Cell::get: a read of the value in the cell
Cell_get(m, c) == ptr_read(m, Cell_as_ptr(c))

\* a cell whose value lives one byte into it
Exists_from_cell_offset(c) == Exists_from_mut_ptr(WrapUsize(Cell_as_ptr(c) + 1))

\* Exists::from_cell(&c), c living at the address c
Exists_from_cell(c) == Exists_from_mut_ptr(Cell_as_ptr(c))

\* Exists::as_ptr
Exists_as_ptr(self) == self.ptr

\* Exists::assume_mut: self as *const Self as *mut Self
Exists_assume_mut(self) == ExistsRef(Exists_as_ptr(self))

----------------------------------------------------------------------------
(* Working through held handles: the caller starts with the slice handle and
   obtains scalar handles and copies from it, then reads and writes *)

\* the values written: 20 and 30 in the first byte, the other bytes counting up
Values == {[i \in 1..size |-> b + i - 1] : b \in {20, 30}}

InitExists ==
    /\ InitCore(MaxExistsLen)
    /\ pc = "idle"
    /\ res = NoCall
    /\ iter = NoIter
    /\ yielded = << >>
    /\ refs = SetToBag({Held(slice, "from_mut")})
    /\ last = NoLast
    /\ written = NoWrites

Handle(i) == i.h
Scalars == {i \in BagToSet(refs) : Handle(i).ty = "Exists"}

\* &Exists<T> made from a shared reference or a const pointer, and the
\* &mut Exists<T> that assume_mut makes of such a handle: writing through the
\* latter is undefined
ReadOnly == {"from_ref", "from_ptr", "assume_mut_ref"}

\* the held &mut Exists<T> whose memory may be written
MutScalars == {i \in Scalars : i.by \notin ReadOnly}
Slices == {i \in BagToSet(refs) : Handle(i).ty = "SliceExists"}

\* the handles of an array, each returned by the operation by
Returned(hs, by) ==
    LET held == {Held(hs[k], by) : k \in DOMAIN hs}
    IN  [e \in held |-> Cardinality({k \in DOMAIN hs : Held(hs[k], by) = e})]

Did(op, self, arg, out) == last' = [op |-> op, self |-> self, arg |-> arg, out |-> out]

Wrote(h, v) == written' = [written EXCEPT ![h.ptr] = [set |-> TRUE, val |-> v]]

\* Exists::from_mut(&mut x[k])
FromMut ==
    /\ pc = "idle"
    /\ BagCardinality(refs) < MaxRefs
    /\ \E k \in 0..(slice.len - 1) :
        LET h == Exists_from_mut(slice.ptr + k * size)
        IN  /\ refs' = refs (+) Returned(<<h>>, "from_mut")
            /\ Did("from_mut", NoHandle, <<slice.ptr + k * size>>, <<h>>)
    /\ UNCHANGED <<size, overflow_checks, mem, slice, pc, res, iter, yielded, written>>

\* &mut a[p] on a held slice handle
ElementMut ==
    /\ pc = "idle"
    /\ BagCardinality(refs) < MaxRefs
    /\ \E i \in Slices, p \in 0..MaxExistsLen :
        \E r \in SliceExists_index_mut(Handle(i), [kind |-> "usize", start |-> p, end |-> 0]) :
            /\ pc' = IF r.tag = "Ret" /\ ~r.ub THEN "idle" ELSE After(r)
            /\ refs' = IF r.tag = "Ret" THEN refs (+) Returned(<<r.h>>, "index_mut") ELSE refs
            /\ Did("index_mut", Handle(i), <<p>>, <<r>>)
    /\ UNCHANGED <<size, overflow_checks, mem, slice, res, iter, yielded, written>>

\* copy_mut::<N>() on a held scalar or slice handle; the copies borrow the
\* original, which the caller cannot use while it holds them
CopyMut ==
    /\ pc = "idle"
    /\ \E i \in BagToSet(refs), N \in 0..MaxCopies :
        LET copies == IF Handle(i).ty = "Exists"
                      THEN Exists_copy_mut(Handle(i), N)
                      ELSE SliceExists_copy_mut(Handle(i), N)
        IN  /\ BagCardinality(refs) - 1 + N <= MaxRefs
            /\ refs' = IF N = 0 THEN refs
                        ELSE (refs (-) SetToBag({i})) (+) Returned(copies, "copy_mut")
            /\ Did("copy_mut", Handle(i), <<N>>, copies)
    /\ UNCHANGED <<size, overflow_checks, mem, slice, pc, res, iter, yielded, written>>

\* get() through a held scalar handle
ExistsGet ==
    /\ pc = "idle"
    /\ \E i \in Scalars : Did("get", Handle(i), << >>, Exists_get(mem, Handle(i)))
    /\ UNCHANGED <<size, overflow_checks, mem, slice, pc, res, iter, yielded, refs, written>>

\* set(v) through a held scalar handle
ExistsSet ==
    /\ pc = "idle"
    /\ \E i \in MutScalars, v \in Values :
        /\ mem' = Exists_set(mem, Handle(i), v)
        /\ Wrote(Handle(i), v)
        /\ Did("set", Handle(i), v, << >>)
    /\ UNCHANGED <<size, overflow_checks, slice, pc, res, iter, yielded, refs>>

\* replace(v) through a held scalar handle
ExistsReplace ==
    /\ pc = "idle"
    /\ \E i \in MutScalars, v \in Values :
        LET r == Exists_replace(mem, Handle(i), v)
        IN  /\ mem' = r.mem
            /\ Wrote(Handle(i), v)
            /\ Did("replace", Handle(i), v, r.out)
    /\ UNCHANGED <<size, overflow_checks, slice, pc, res, iter, yielded, refs>>

\* take() through a held scalar handle
ExistsTake ==
    /\ pc = "idle"
    /\ \E i \in MutScalars :
        LET r == Exists_take(mem, Handle(i))
        IN  /\ mem' = r.mem
            /\ Wrote(Handle(i), Default)
            /\ Did("take", Handle(i), << >>, r.out)
    /\ UNCHANGED <<size, overflow_checks, slice, pc, res, iter, yielded, refs>>

\* a.swap(b) through two held scalar handles, which may be copies of each other
ExistsSwap ==
    /\ pc = "idle"
    /\ \E i \in MutScalars, j \in MutScalars :
        /\ i # j \/ CopiesIn(i, refs) >= 2
        /\ mem' = Exists_swap(mem, Handle(i), Handle(j))
        /\ written' = [[written EXCEPT ![Handle(i).ptr] =
                            [set |-> TRUE, val |-> Exists_get(mem, Handle(j))]]
                          EXCEPT ![Handle(j).ptr] =
                            [set |-> TRUE, val |-> Exists_get(mem, Handle(i))]]
        /\ Did("swap", Handle(i), <<Handle(j)>>, << >>)
    /\ UNCHANGED <<size, overflow_checks, slice, pc, res, iter, yielded, refs>>

NextExists ==
    \/ FromMut
    \/ ElementMut
    \/ CopyMut
    \/ ExistsGet
    \/ ExistsSet
    \/ ExistsReplace
    \/ ExistsTake

SpecExists == InitExists /\ [][NextExists]_vars

\* the same caller writing with set and swap
NextSwap ==
    \/ FromMut
    \/ ElementMut
    \/ CopyMut
    \/ ExistsSet
    \/ ExistsSwap

SpecSwap == InitExists /\ [][NextSwap]_vars

----------------------------------------------------------------------------
(* Making scalar handles of the elements x[k] by every construction path,
   then writing and reading through them *)

\* the address of x[k]
ElementAddrs == {slice.ptr + k * size : k \in 0..(slice.len - 1)}

Construct(op, h, source) ==
    /\ pc = "idle"
    /\ BagCardinality(refs) < MaxRefs
    /\ refs' = refs (+) Returned(<<h>>, op)
    /\ Did(op, NoHandle, <<source>>, <<h>>)
    /\ UNCHANGED <<size, overflow_checks, mem, slice, pc, res, iter, yielded, written>>

\* Exists::from_ref(&x[k])
FromRef == \E p \in ElementAddrs : Construct("from_ref", Exists_from_ref(p), p)

\* Exists::from_cell(&c), c the cell x[k]
FromCell == \E c \in ElementAddrs : Construct("from_cell", Exists_from_cell(c), c)

\* Exists::from_ptr(x.as_ptr().add(k))
FromPtr == \E data \in ElementAddrs : Construct("from_ptr", Exists_from_ptr(data), data)

\* Exists::from_mut_ptr(x.as_mut_ptr().add(k))
FromMutPtr ==
    \E data \in ElementAddrs : Construct("from_mut_ptr", Exists_from_mut_ptr(data), data)

\* assume_mut() on a held handle taken as &Exists<T>
AssumeMut ==
    /\ pc = "idle"
    /\ BagCardinality(refs) < MaxRefs
    /\ \E i \in Scalars :
        LET h == Exists_assume_mut(Handle(i))
            by == IF i.by \in ReadOnly THEN "assume_mut_ref" ELSE "assume_mut"
        IN  /\ refs' = refs (+) Returned(<<h>>, by)
            /\ Did("assume_mut", Handle(i), << >>, <<h>>)
    /\ UNCHANGED <<size, overflow_checks, mem, slice, pc, res, iter, yielded, written>>

\* set(v) through the assume_mut() of a handle made from a shared reference:
\* undefined, the write may or may not take place
ExistsSetReadOnly ==
    /\ pc = "idle"
    /\ \E i \in Scalars, v \in Values :
        /\ i.by = "assume_mut_ref"
        /\ mem' \in {mem, Exists_set(mem, Handle(i), v)}
        /\ Did("set", Handle(i), v, << >>)
    /\ pc' = "ub"
    /\ UNCHANGED <<size, overflow_checks, slice, res, iter, yielded, refs, written>>

NextConstruct ==
    \/ FromRef
    \/ FromMut
    \/ FromCell
    \/ FromPtr
    \/ FromMutPtr
    \/ AssumeMut
    \/ ExistsSet
    \/ ExistsSetReadOnly
    \/ ExistsGet

SpecConstruct == InitExists /\ [][NextConstruct]_vars

----------------------------------------------------------------------------
(* The caller using every kind of call on the one backing array: handles of
   the elements by from_mut_ptr(base.add(k)) and by indexing, reads and
   writes through them, and len, is_empty, split_at and the iterators on the
   slice handle *)

\* Exists::from_mut_ptr(base.add(k))
FromMutPtrAdd ==
    \E k \in 0..(slice.len - 1) :
        LET data == ptr_add(SliceExists_as_mut_ptr(slice), k)
        IN  Construct("from_mut_ptr", Exists_from_mut_ptr(data), data)

NextFrame ==
    \/ FromMutPtrAdd
    \/ ElementMut
    \/ ExistsGet
    \/ ExistsSet
    \/ ExistsReplace
    \/ ExistsTake
    \/ ExistsSwap
    \/ SliceLen
    \/ IsEmpty
    \/ SplitAt
    \/ IterMutNew
    \/ IterMutNext

SpecFrame == InitExists /\ [][NextFrame]_vars

----------------------------------------------------------------------------
(* Properties of the indexing protocol *)

Called(ops, kind) == pc # "idle" /\ res.op \in ops /\ res.index.kind = kind

\* C1: on a slice handle of length L, get(s..e) and get_mut(s..e) return Some
\* exactly when s <= e and e <= L, and None otherwise.
C1_RangeGetTotality ==
    Called({"get", "get_mut"}, "Range") =>
        /\ res.out.tag \in {"Some", "None"}
        /\ res.out.tag = "Some" <=>
              (res.index.start <= res.index.end /\ res.index.end <= slice.len)

\* the index is one the spec calls valid for its kind
ValidIndex(index, len) ==
    CASE index.kind = "usize" -> index.start < len
      [] index.kind \in {"Range", "RangeInclusive"} ->
            index.start <= index.end /\ index.end <= len
      [] index.kind \in {"RangeTo", "RangeToInclusive"} -> index.end <= len
      [] index.kind = "RangeFrom" -> index.start <= len
      [] index.kind = "RangeFull" -> TRUE

\* C2: get and get_mut never terminate the program: for every index kind and
\* every index value the call returns Some or None, an invalid index gives
\* None, and no end - start subtraction underflows.
C2_GetNeverPanics ==
    (pc # "idle" /\ res.op \in {"get", "get_mut"}) =>
        /\ pc = "returned"
        /\ res.out.tag \in {"Some", "None"}
        /\ ~ValidIndex(res.index, slice.len) => res.out = None

\* C4: on a slice handle of length L, get(p) and get_mut(p) return Some
\* exactly when p < L, None otherwise, and the handle returned denotes the
\* address start + p element strides.
C4_PositionGet ==
    Called({"get", "get_mut"}, "usize") =>
        IF res.index.start < slice.len
        THEN res.out = Some(ExistsRef(slice.ptr + res.index.start * size))
        ELSE res.out = None

\* get(p) returned the handle of an element other than the first, of a T wider
\* than a byte
C4_Witness ==
    /\ Called({"get"}, "usize")
    /\ res.index.start > 0
    /\ size > 1
    /\ res.out.tag = "Some"

\* C8: index(s..e) and index_mut(s..e) on a slice handle of length L panic
\* with "slice index starts at {s} but ends at {e}" if s > e (also when
\* e > L), otherwise with "range end index {e} out of range for slice of
\* length {L}" if e > L, and otherwise return without panicking.
C8_RangeIndexPanics ==
    Called({"index", "index_mut"}, "Range") =>
        LET st == res.index.start
            en == res.index.end
        IN  IF st > en
            THEN /\ pc = "panicked"
                 /\ res.out.msg = "slice index starts at " \o ToString(st)
                                    \o " but ends at " \o ToString(en)
            ELSE IF en > slice.len
            THEN /\ pc = "panicked"
                 /\ res.out.msg = "range end index " \o ToString(en)
                                    \o " out of range for slice of length "
                                    \o ToString(slice.len)
            ELSE pc = "returned" /\ res.out.tag = "Ret"

\* index(s..e) with both s > e and e > L panicked
C8_Witness ==
    /\ Called({"index"}, "Range")
    /\ res.index.start > res.index.end
    /\ res.index.end > slice.len
    /\ pc = "panicked"

\* C9: index(p) and index_mut(p) on a slice handle of length L panic with
\* "index {p} out of range for slice of length {L}" when p >= L, and return
\* the scalar handle at start + p strides when p < L.
C9_PositionIndexPanics ==
    Called({"index", "index_mut"}, "usize") =>
        LET p == res.index.start
        IN  IF p >= slice.len
            THEN /\ pc = "panicked"
                 /\ res.out.msg = "index " \o ToString(p)
                                    \o " out of range for slice of length "
                                    \o ToString(slice.len)
            ELSE /\ pc = "returned"
                 /\ res.out = Ret(ExistsRef(slice.ptr + p * size))

\* index(3) on a slice handle of length 3 panicked with index=3, len=3
C9_Witness ==
    /\ Called({"index"}, "usize")
    /\ slice.len = 3
    /\ res.out = Panic("index 3 out of range for slice of length 3")
    /\ pc = "panicked"

\* C10: index(s..) and index_mut(s..) on a slice handle of length L panic with
\* "range start index {s} out of range for slice of length {L}" when s > L,
\* and otherwise (s = L included) return the sub-handle at start + s strides
\* of length L - s.
C10_RangeFromIndex ==
    Called({"index", "index_mut"}, "RangeFrom") =>
        LET st == res.index.start
        IN  IF st > slice.len
            THEN /\ pc = "panicked"
                 /\ res.out.msg = "range start index " \o ToString(st)
                                    \o " out of range for slice of length "
                                    \o ToString(slice.len)
            ELSE /\ pc = "returned"
                 /\ res.out = Ret(SliceExistsRef(slice.ptr + st * size, slice.len - st))

\* index_mut(L..) on a non-empty slice handle returned the empty tail
C10_Witness ==
    /\ Called({"index_mut"}, "RangeFrom")
    /\ slice.len > 0
    /\ res.index.start = slice.len
    /\ pc = "returned"
    /\ res.out.h.len = 0

----------------------------------------------------------------------------
(* Properties of the iterators *)

Draining(kinds) == pc = "iterating" /\ iter.kind \in kinds

\* next() has returned None
Exhausted == res.op = "next" /\ res.out = None

\* C5: iter() and iter_mut() over a slice handle of length L yield exactly L
\* scalar handles and then return None; the k-th handle (k = 0..L-1) denotes
\* the address start + k strides, and reading the handles gives the elements
\* in order ([1,2,3,4,5] mapped through get()*2 collects to [2,4,6,8,10]).
C5_IterYieldsAll ==
    Draining({"Iter", "IterMut"}) =>
        /\ Len(yielded) <= slice.len
        /\ \A k \in 1..Len(yielded) :
              /\ yielded[k] = ExistsRef(slice.ptr + (k - 1) * size)
              /\ from_le_bytes(Exists_get(mem, yielded[k])) * 2 = 2 * k
        /\ Exhausted => Len(yielded) = slice.len

\* C6: both sequence producers are finite: for every slice handle and every
\* chunk_size, repeatedly calling next() on chunks(chunk_size), and on
\* iter() / iter_mut(), returns None after finitely many calls.
C6_ProducersFinite == Draining({"Iter", "IterMut", "Chunks"}) ~> Exhausted

\* ceil(a / b)
CeilDiv(a, b) == (a + b - 1) \div b

\* C7: for chunk_size c >= 1, chunks(c) over a slice handle of length L yields
\* ceil(L/c) sub-handles; the j-th (j = 0, 1, ..) starts at start + j*c
\* elements and has length min(c, L - j*c), and at every step the lengths
\* yielded so far plus the length of the retained remainder equal L, the
\* remainder starting where the last chunk ended; no call panics.
C7_ChunksCover ==
    (iter.kind = "Chunks" /\ iter.chunk_size >= 1) =>
        LET c == iter.chunk_size
            L == slice.len
            n == Len(yielded)
            lenOf(j) == IF c <= L - j * c THEN c ELSE L - j * c
            done == IF n * c <= L THEN n * c ELSE L
        IN  /\ pc = "iterating"
            /\ \A j \in 0..(n - 1) :
                  /\ j * c < L
                  /\ yielded[j + 1] = SliceExistsRef(slice.ptr + j * c * size, lenOf(j))
                  /\ yielded[j + 1].len >= 1
            /\ iter.v = SliceExistsRef(slice.ptr + done * size, L - done)
            /\ Exhausted => n = CeilDiv(L, c)

\* chunks(3) over a slice handle of length 7 yielded lengths 3, 3, 1 and then None
C7_Witness ==
    /\ Draining({"Chunks"})
    /\ iter.chunk_size = 3
    /\ slice.len = 7
    /\ size = 2
    /\ Len(yielded) = 3
    /\ yielded[1].len = 3 /\ yielded[2].len = 3 /\ yielded[3].len = 1
    /\ Exhausted

----------------------------------------------------------------------------
(* Properties of the scalar handle *)

\* C3: the N handles returned by copy_mut::<N>() on a scalar or slice
\* mut-handle denote the same address (and length) as the original, and after
\* any sequence of set / replace / take calls through any of the held handles,
\* get() through every handle of an address returns the value most recently
\* written to it through any of them.
C3_CopiesAlias ==
    /\ last.op = "copy_mut" =>
          /\ Len(last.out) = last.arg[1]
          /\ \A k \in DOMAIN last.out : last.out[k] = last.self
    /\ \A i \in Scalars :
          written[Handle(i).ptr].set =>
              Exists_get(mem, Handle(i)) = written[Handle(i).ptr].val
    /\ \A i \in Slices : \A p \in 0..(Handle(i).len - 1) :
          \A r \in usize_index(p, Handle(i)) :
              written[r.h.ptr].set => Exists_get(mem, r.h) = written[r.h.ptr].val
    /\ (last.op = "get" /\ written[last.self.ptr].set) =>
          last.out = written[last.self.ptr].val

\* with the two copies of copy_mut::<2>() of a two-byte value held, written
\* through in turn, a get() returned the 30 that was written last
C3_Witness ==
    /\ last.op = "get"
    /\ size = 2
    /\ last.out = <<30, 31>>
    /\ last.self.ty = "Exists"
    /\ CopiesIn(Held(last.self, "copy_mut"), refs) = 2

----------------------------------------------------------------------------
(* Range slicing and the frame of the non-accessing calls *)

RangeSlicingOps == {"index", "index_mut", "get_unchecked", "get_unchecked_mut"}

\* C11: a range access s..e with s <= e <= L through index, index_mut,
\* get_unchecked or get_unchecked_mut returns the slice handle that starts s
\* strides after the parent's start and has length e - s; slicing, len and
\* is_empty leave every byte of the elements as it was.
C11_RangeSliceFrame ==
    /\ (/\ Called(RangeSlicingOps, "Range")
        /\ res.index.start <= res.index.end
        /\ res.index.end <= slice.len)
        => /\ pc = "returned"
           /\ res.out = Ret(SliceExistsRef(slice.ptr + res.index.start * size,
                                           res.index.end - res.index.start))
    /\ (pc # "idle" /\ res.op \in RangeSlicingOps \cup {"len", "is_empty"})
        => mem = InitialMem(slice.ptr, slice.len, size)

\* index(s..e) returned a proper inner sub-slice of elements wider than a byte
C11_Witness ==
    /\ Called({"index"}, "Range")
    /\ res.index.start > 0
    /\ res.index.start < res.index.end
    /\ res.index.end <= slice.len
    /\ size > 1
    /\ pc = "returned"

----------------------------------------------------------------------------
(* split_at *)

\* C12: split_at(pos) with pos <= L returns the handles of [0, pos) and
\* [pos, L): the first starts at the parent's start with length pos, the
\* second pos strides later with length L - pos, so they are adjacent,
\* disjoint and their lengths sum to L; with pos > L the call panics with
\* "range end index {pos} out of range for slice of length {L}".
C12_SplitAt ==
    Called({"split_at"}, "usize") =>
        LET pos == res.index.start
        IN  IF pos <= slice.len
            THEN /\ pc = "returned"
                 /\ res.out = Ret(<<SliceExistsRef(slice.ptr, pos),
                                    SliceExistsRef(slice.ptr + pos * size,
                                                   slice.len - pos)>>)
                 /\ res.out.h[1].ptr + res.out.h[1].len * size = res.out.h[2].ptr
                 /\ res.out.h[1].len + res.out.h[2].len = slice.len
            ELSE /\ pc = "panicked"
                 /\ res.out = Panic("range end index " \o ToString(pos)
                                    \o " out of range for slice of length "
                                    \o ToString(slice.len))

\* split_at cut a slice of wide elements into two non-empty halves
C12_Witness ==
    /\ Called({"split_at"}, "usize")
    /\ res.index.start > 0
    /\ res.index.start < slice.len
    /\ size > 1
    /\ pc = "returned"

----------------------------------------------------------------------------
(* The open-ended range kinds *)

\* C19: get(..e) and get_mut(..e) return Some exactly when e <= L, of the
\* handle with the parent's start and length e; get(s..) and get_mut(s..)
\* return Some exactly when s <= L, of the handle s strides later with length
\* L - s; get(..) and get_mut(..) always return Some of the parent's own
\* range, and index(..) and index_mut(..) never panic.
C19_OpenRangeGet ==
    /\ Called({"get", "get_mut"}, "RangeTo") =>
          IF res.index.end <= slice.len
          THEN res.out = Some(SliceExistsRef(slice.ptr, res.index.end))
          ELSE res.out = None
    /\ Called({"get", "get_mut"}, "RangeFrom") =>
          IF res.index.start <= slice.len
          THEN res.out = Some(SliceExistsRef(slice.ptr + res.index.start * size,
                                             slice.len - res.index.start))
          ELSE res.out = None
    /\ Called({"get", "get_mut"}, "RangeFull") => res.out = Some(slice)
    /\ Called({"index", "index_mut"}, "RangeFull") =>
          pc = "returned" /\ res.out = Ret(slice)

----------------------------------------------------------------------------
(* The inclusive range kinds *)

AllForms ==
    {"get", "get_mut", "get_unchecked", "get_unchecked_mut", "index", "index_mut"}

\* C20: each of the six access forms called with s..=e panics with "not yet
\* implemented" for every input, ..=e delegates to 0..=e and panics
\* likewise; no inclusive-range call returns a sub-handle or None.
C20_InclusiveUnimplemented ==
    (Called(AllForms, "RangeInclusive") \/ Called(AllForms, "RangeToInclusive")) =>
        /\ pc = "panicked"
        /\ res.out = Panic("not yet implemented")
        /\ res.out.tag \notin {"Ret", "Some", "None"}

\* index(s..=e) was called with a range that lies inside the slice
C20_Witness ==
    /\ Called({"index"}, "RangeInclusive")
    /\ res.index.start <= res.index.end
    /\ res.index.end < slice.len
    /\ pc = "panicked"

----------------------------------------------------------------------------
(* Laws of set, replace, take and swap *)

\* C13: after h.set(v) the memory of h holds v, and a get() that follows
\* immediately through a handle of the same address returns v.
C13_SetGetRoundTrip ==
    [][/\ last'.op = "set" => Exists_get(mem', last'.self) = last'.arg
       /\ (last.op = "set" /\ last'.op = "get" /\ last'.self.ptr = last.self.ptr)
            => last'.out = last.arg]_vars

\* a two-byte 30 has just been set through a handle, which reads it back
C13_Witness ==
    /\ last.op = "set"
    /\ size = 2
    /\ last.arg = <<30, 31>>
    /\ Exists_get(mem, last.self) = <<30, 31>>

\* C14: h.replace(v) returns the value the pointee held immediately before
\* the call and afterwards h.get() is v; in a chain of replace calls through
\* handles of one address each call returns the value the previous one wrote.
C14_ReplaceLaw ==
    [][/\ last'.op = "replace" =>
            /\ last'.out = Exists_get(mem, last'.self)
            /\ Exists_get(mem', last'.self) = last'.arg
       /\ (last.op = "replace" /\ last'.op = "replace"
              /\ last'.self.ptr = last.self.ptr)
            => last'.out = last.arg]_vars

\* a replace(20) through a handle of a two-byte value returned the 30 that
\* had been written there before
C14_Witness ==
    /\ last.op = "replace"
    /\ size = 2
    /\ last.arg = <<20, 21>>
    /\ last.out = <<30, 31>>

\* C15: take() returns the value held before the call, afterwards get() is
\* the default value, and memory and result are those of replace(default).
C15_TakeLaw ==
    [][last'.op = "take" =>
            /\ last'.out = Exists_get(mem, last'.self)
            /\ Exists_get(mem', last'.self) = Default
            /\ mem' = Exists_replace(mem, last'.self, Default).mem
            /\ last'.out = Exists_replace(mem, last'.self, Default).out]_vars

\* a take() returned a written two-byte value and left the default behind
C15_Witness ==
    /\ last.op = "take"
    /\ size = 2
    /\ last.out = <<20, 21>>
    /\ Exists_get(mem, last.self) = <<0, 0>>

\* C16: a swap through two mut-handles of the same address leaves the value,
\* and all of memory, unchanged.
C16_SelfSwap ==
    [][(last'.op = "swap" /\ last'.arg[1].ptr = last'.self.ptr) =>
            /\ Exists_get(mem', last'.self) = Exists_get(mem, last'.self)
            /\ mem' = mem]_vars

\* two copies of one handle of a non-zero two-byte value were swapped
C16_Witness ==
    /\ last.op = "swap"
    /\ last.arg[1] = last.self
    /\ size = 2
    /\ CopiesIn(Held(last.self, "copy_mut"), refs) = 2
    /\ Exists_get(mem, last.self) = <<30, 31>>

\* the values of self and other do not share a byte
Disjoint(self, other) ==
    \A i \in 0..(size - 1), j \in 0..(size - 1) : self.ptr + i # other.ptr + j

\* C17: a swap through handles whose values do not overlap exchanges the two
\* values and changes nothing else, and a second swap restores memory.
C17_DisjointSwap ==
    [][(last'.op = "swap" /\ size > 0 /\ Disjoint(last'.self, last'.arg[1])) =>
            /\ Exists_get(mem', last'.self) = Exists_get(mem, last'.arg[1])
            /\ Exists_get(mem', last'.arg[1]) = Exists_get(mem, last'.self)
            /\ Exists_swap(mem', last'.self, last'.arg[1]) = mem]_vars

\* two different elements holding different two-byte values were swapped
C17_Witness ==
    /\ last.op = "swap"
    /\ size = 2
    /\ last.arg[1].ptr # last.self.ptr
    /\ Exists_get(mem, last.self) = <<30, 31>>
    /\ Exists_get(mem, last.arg[1]) = <<1, 0>>

----------------------------------------------------------------------------
(* The construction paths *)

\* C18: a handle made by from_ref, from_mut, from_cell, from_ptr or
\* from_mut_ptr denotes the address of its source and one made by assume_mut
\* the address of the handle it was called on, and making it changes no
\* memory; a set(v) with defined behaviour through a handle just made by
\* from_mut or from_cell is read back as v from the variable or the cell, and
\* one through a handle just made by assume_mut is read back as v by get() on
\* the handle it was derived from.
C18_ConstructionsAlias ==
    [][/\ last'.op \in {"from_ref", "from_mut", "from_cell", "from_ptr", "from_mut_ptr"}
            => /\ Exists_as_ptr(last'.out[1]) = last'.arg[1]
               /\ mem' = mem
       /\ last'.op = "assume_mut"
            => /\ Exists_as_ptr(last'.out[1]) = Exists_as_ptr(last'.self)
               /\ mem' = mem
       /\ (/\ last.op \in {"from_mut", "from_cell"}
           /\ last'.op = "set"
           /\ last'.self = last.out[1]
           /\ pc' = "idle")
            => /\ ptr_read(mem', last.arg[1]) = last'.arg
               /\ Cell_get(mem', last.arg[1]) = last'.arg
       /\ (/\ last.op = "assume_mut"
           /\ last'.op = "set"
           /\ last'.self = last.out[1]
           /\ pc' = "idle")
            => Exists_get(mem', last.self) = last'.arg]_vars

\* a two-byte 20 was set through the assume_mut() of a handle made by
\* from_cell, and the cell reads 20
C18_Witness ==
    /\ last.op = "set"
    /\ size = 2
    /\ pc = "idle"
    /\ CopiesIn(Held(last.self, "from_cell"), refs) = 1
    /\ CopiesIn(Held(last.self, "assume_mut"), refs) = 1
    /\ Cell_get(mem, Exists_as_ptr(last.self)) = <<20, 21>>

----------------------------------------------------------------------------
(* Agreement of the checked and the panicking forms *)

ImplementedKinds == {"usize", "Range", "RangeTo", "RangeFrom", "RangeFull"}

\* C21: for every implemented index kind and every index value, index(i) and
\* index_mut(i) panic exactly when get(i) and get_mut(i) return None, when
\* they return they denote the sub-handle that get(i) and get_mut(i) return
\* in Some, and get and get_mut agree with each other on the result.
C21_CheckedPanickingAgree ==
    /\ (pc # "idle" /\ res.op \in {"index", "index_mut"}
          /\ res.index.kind \in ImplementedKinds) =>
          \A g \in SliceExists_get(slice, res.index) \cup
                    SliceExists_get_mut(slice, res.index) :
              /\ (pc = "panicked") <=> (g = None)
              /\ (pc = "returned") => (g = Some(res.out.h))
    /\ (pc # "idle" /\ res.op = "get" /\ res.index.kind \in ImplementedKinds) =>
          SliceExists_get_mut(slice, res.index) = SliceExists_get(slice, res.index)

----------------------------------------------------------------------------
(* The element iterators over zero-sized values *)

\* C22: iter() and iter_mut() stop when the cursor address reaches the end
\* address, computed once as start + len strides: over zero-sized values the
\* end is the start, the cursor never moves and no handle is yielded whatever
\* the length, every next() returning None; with a stride of at least one
\* byte the iterator yields as many handles as the slice has elements.
C22_ZeroSizedYieldNothing ==
    Draining({"Iter", "IterMut"}) =>
        /\ iter.end = slice.ptr + slice.len * size
        /\ size = 0 =>
              /\ iter.end = slice.ptr
              /\ iter.ptr = slice.ptr
              /\ yielded = << >>
              /\ res.op = "next" => res.out = None
        /\ size >= 1 =>
              /\ Len(yielded) <= slice.len
              /\ Exhausted => iter.ptr = iter.end
              /\ Exhausted => Len(yielded) = slice.len

\* next() on iter() over three zero-sized values returned None at once
C22_Witness ==
    /\ Draining({"Iter"})
    /\ size = 0
    /\ slice.len = 3
    /\ Exhausted
    /\ yielded = << >>

----------------------------------------------------------------------------
(* The state of the iterators *)

\* values of at least one byte, and chunks of at least one element
Strided == size >= 1 /\ (iter.kind = "Chunks" => iter.chunk_size >= 1)

\* the handle, of n elements, lies in the slice
Within(h, n) ==
    /\ slice.ptr <= h.ptr
    /\ h.ptr + n * size <= slice.ptr + slice.len * size
    /\ (h.ptr - slice.ptr) % size = 0

IterInvariant ==
    (pc = "iterating" /\ Strided) =>
        /\ iter.kind \in {"Iter", "IterMut"} =>
              /\ slice.ptr <= iter.ptr
              /\ iter.ptr <= iter.end
              /\ iter.end = slice.ptr + slice.len * size
              /\ iter.ptr - slice.ptr = Len(yielded) * size
              /\ \A k \in DOMAIN yielded :
                    Within(yielded[k], 1) /\ yielded[k].ptr < iter.end
        /\ iter.kind = "Chunks" =>
              /\ Within(iter.v, iter.v.len)
              /\ iter.v.ptr + iter.v.len * size = slice.ptr + slice.len * size
              /\ \A k \in DOMAIN yielded : Within(yielded[k], yielded[k].len)

\* C24: with values of at least one byte and chunks of at least one element,
\* after any number of next() calls the cursor of iter() and iter_mut() lies
\* between start and end, a whole number of strides from the start equal to
\* the number of handles yielded, the remainder kept by chunks() is a suffix
\* of the slice, no handle yielded lies outside [start, end), and once next()
\* has returned None every later next() returns None and yields nothing.
C24_IteratorState ==
    /\ IterInvariant
    /\ (pc = "iterating" /\ Strided /\ Exhausted) =>
          \A n \in (CASE iter.kind = "Iter" -> Iter_next(iter)
                      [] iter.kind = "IterMut" -> IterMut_next(iter)
                      [] iter.kind = "Chunks" -> Chunks_next(iter)) :
              n.out = None /\ n.self = iter

\* iter_mut() over three two-byte values has yielded all three handles and
\* then returned None
C24_Witness ==
    /\ Draining({"IterMut"})
    /\ size = 2
    /\ slice.len = 3
    /\ Len(yielded) = 3
    /\ iter.ptr = iter.end
    /\ Exhausted

----------------------------------------------------------------------------
(* The frame of the writes *)

\* the byte at address a belongs to the value of the scalar handle h
InValue(h, a) == \E i \in 0..(size - 1) : a = WrapUsize(h.ptr + i)

\* memory changes in this step at most inside the values of the handles hs
ConfinedTo(hs) ==
    \A a \in Usize : (\A h \in hs : ~InValue(h, a)) => mem'[a] = mem[a]

\* C23: set, replace and take through a scalar handle change only the bytes
\* of the value at that handle's address and swap only those of the two
\* values addressed, every other element of the backing array keeping its
\* value; get, making a handle by indexing or from_mut_ptr, len, is_empty,
\* split_at and iteration change no byte at all.
C23_WriteConfinement ==
    [][/\ last'.op \in {"set", "replace", "take"} => ConfinedTo({last'.self})
       /\ last'.op = "swap" => ConfinedTo({last'.self, last'.arg[1]})
       /\ last'.op \notin {"set", "replace", "take", "swap"} => mem' = mem
       /\ (res' # res \/ iter' # iter \/ yielded' # yielded \/ refs' # refs)
            => mem' = mem]_vars

\* a two-byte 30 was set through the handle of the second element, and the
\* first element still holds its initial 1
C23_Witness ==
    /\ last.op = "set"
    /\ size = 2
    /\ slice.len = 2
    /\ last.self = ExistsRef(slice.ptr + size)
    /\ ptr_read(mem, slice.ptr + size) = <<30, 31>>
    /\ ptr_read(mem, slice.ptr) = <<1, 0>>

====
